---- MODULE Spec2Model ----
(***************************************************************************)
(* Model of lib/tiff-layer-reader.ts: the 8BIM image-resource walker       *)
(* (parse8BIMResources), the layer record parser (parseLayerAndMaskInfo),  *)
(* the Photoshop tag lookup (extractPhotoshopTag) and the driver with its  *)
(* fallback strategy (readLayersFromTiff).                                 *)
(*                                                                         *)
(* Buffers are sequences of bytes (0..255); source offsets are 0-based, so *)
(* the byte at source offset o is buf[o + 1].  Strings are sequences of    *)
(* character codes.                                                        *)
(***************************************************************************)
EXTENDS Integers, Sequences, FiniteSets, TLC

VARIABLES
    pc,          \* position of the running call
    err,         \* the error raised to the caller, or NoError
    ifds,        \* UTIF.decode(buffer): the decoded image file directories
    buffer,      \* the byte buffer handed to the parser that is running
    offset,      \* parse8BIMResources: the cursor
    resources,   \* parse8BIMResources: the resources pushed so far
    dataStarts,  \* parse8BIMResources: dataStart of each pushed resource
    altIndex,    \* readLayersFromTiff: position in alternativeResources
    attempts,    \* readLayersFromTiff: the parseLayerAndMaskInfo calls made
    layers,      \* value returned by a direct parseLayerAndMaskInfo call
    result,      \* readLayersFromTiff: the TiffLayerData returned, or NoResult
    fixture,     \* how the input was laid out (read by no operation)
    earlier,     \* the outcome of an earlier call on the same input, or NoEarlier
    diagnostics, \* "on"; "failing": the body of analyzeTiffStructure throws;
                 \* "off": the call runs with its diagnostics left out
    log          \* what the diagnostics of readLayersFromTiff have written

vars == <<pc, err, ifds, buffer, offset, resources, dataStarts, altIndex,
          attempts, layers, result, fixture, earlier, diagnostics, log>>

(***************************************************************************)
(* Bounds of the inputs explored.                                          *)
(***************************************************************************)
MaxRes == 2
MaxNameLen == 1
MaxDataSize == 1
MaxLayers == 2
MaxChannels == 1
MaxOther == 1

(***************************************************************************)
(* JavaScript values that are not numbers.                                 *)
(***************************************************************************)
Undefined == -1
NaN == -2
NoError == "none"
NoResult == [none |-> TRUE]
NoFixture == [kind |-> "none"]
NoEarlier == [kind |-> "none"]

(***************************************************************************)
(* Buffer primitives.                                                      *)
(***************************************************************************)
Min(a, b) == IF a < b THEN a ELSE b
Max(a, b) == IF a > b THEN a ELSE b

\* buffer[o]: undefined outside the buffer
ByteAt(buf, o) == IF o >= 0 /\ o < Len(buf) THEN buf[o + 1] ELSE Undefined

ReadUInt8(buf, o) == buf[o + 1]
ReadUInt16BE(buf, o) == buf[o + 1] * 256 + buf[o + 2]
ReadInt16BE(buf, o) ==
    IF buf[o + 1] >= 128 THEN (buf[o + 1] - 256) * 256 + buf[o + 2]
    ELSE buf[o + 1] * 256 + buf[o + 2]
ReadUInt32BE(buf, o) ==
    ((buf[o + 1] * 256 + buf[o + 2]) * 256 + buf[o + 3]) * 256 + buf[o + 4]
ReadInt32BE(buf, o) ==
    IF buf[o + 1] >= 128
    THEN (((buf[o + 1] - 256) * 256 + buf[o + 2]) * 256 + buf[o + 3]) * 256 + buf[o + 4]
    ELSE ReadUInt32BE(buf, o)

\* buffer.slice(start, end): both ends clamped to the buffer
Slice(buf, start, end) ==
    LET s == Min(Max(start, 0), Len(buf))
        e == Min(Max(end, 0), Len(buf))
    IN  IF e <= s THEN <<>> ELSE SubSeq(buf, s + 1, e)

\* buffer.toString('ascii', start, end): the high bit of every byte is unset
ToAscii(buf, start, end) ==
    LET b == Slice(buf, start, end)
    IN  [i \in 1..Len(b) |-> b[i] % 128]

ToUtf16be(buf, start, end) ==
    LET b == Slice(buf, start, end)
    IN  [i \in 1..(Len(b) \div 2) |-> 256 * b[2 * i - 1] + b[2 * i]]

\* buffer.toString('utf16le', start, end): little-endian 16-bit code units
ToUtf16le(buf, start, end) ==
    LET b == Slice(buf, start, end)
    IN  [i \in 1..(Len(b) \div 2) |-> b[2 * i - 1] + 256 * b[2 * i]]

\* character codes of the string literals the parsers compare with
Str8BIM == <<56, 66, 73, 77>>
StrLuni == <<108, 117, 110, 105>>
StrLnam == <<108, 110, 97, 109>>
StrNorm == <<110, 111, 114, 109>>

(***************************************************************************)
(* parse8BIMResources                                                      *)
(***************************************************************************)
UnpaddedNameLength(nameLength) ==
    IF nameLength = Undefined THEN NaN ELSE nameLength

\* (nameLength + 1) % 2 === 1 ? nameLength + 1 : nameLength + 2
PaddedNameLength(nameLength) ==
    IF nameLength = Undefined THEN NaN
    ELSE IF (nameLength + 1) % 2 = 1 THEN nameLength + 1 ELSE nameLength + 2

ResourceName(buf, off, nameLength) ==
    IF nameLength > 0 /\ off + 7 + nameLength <= Len(buf)
    THEN ToAscii(buf, off + 7, off + 7 + nameLength)
    ELSE <<>>

\* if (dataEnd > buffer.length) break
DataExceedsFromStart(dataStart, dataSize, len) == dataStart > len
DataExceedsSizeOnly(dataStart, dataSize, len) == dataSize > len
DataExceeds(dataStart, dataSize, len) == dataStart + dataSize > len

NextOffsetIntoData(dataEnd, dataSize) == dataEnd - dataSize
NextOffsetFromZero(dataEnd, dataSize) == dataSize + (IF dataSize % 2 = 1 THEN 1 ELSE 0)

\* offset = dataEnd + (dataSize % 2 === 1 ? 1 : 0)
NextOffset(dataEnd, dataSize) == dataEnd + (IF dataSize % 2 = 1 THEN 1 ELSE 0)

\* The walker leaves its loop: parse8BIMResources returns `resources`.
WalkReturn ==
    /\ pc' = "walked"
    /\ UNCHANGED <<err, ifds, buffer, offset, resources, dataStarts, altIndex,
                   attempts, layers, result, fixture, earlier, diagnostics, log>>

\* buffer.readUInt32BE(NaN) raises ERR_OUT_OF_RANGE, which nothing catches.
WalkThrow ==
    /\ pc' = "error"
    /\ err' = "ERR_OUT_OF_RANGE"
    /\ UNCHANGED <<ifds, buffer, offset, resources, dataStarts, altIndex,
                   attempts, layers, result, fixture, earlier, diagnostics, log>>

\* One evaluation of the loop condition and, when it holds, of the body.
WalkStep ==
    /\ pc = "walk"
    /\ LET len == Len(buffer)
           nameLength == ByteAt(buffer, offset + 6)
           paddedNameLength == PaddedNameLength(nameLength)
           sizeOffset == offset + 7 + paddedNameLength
           dataSize == ReadUInt32BE(buffer, sizeOffset)
           dataStart == sizeOffset + 4
           dataEnd == dataStart + dataSize
       IN  IF ~(offset < len) THEN WalkReturn
           ELSE IF offset + 4 > len THEN WalkReturn
           ELSE IF ToAscii(buffer, offset, offset + 4) # Str8BIM THEN WalkReturn
           ELSE IF offset + 6 > len THEN WalkReturn
           \* nameLength undefined: sizeOffset is NaN, `NaN + 4 > length` is
           \* false, and the read at NaN throws
           ELSE IF paddedNameLength = NaN THEN WalkThrow
           ELSE IF sizeOffset + 4 > len THEN WalkReturn
           ELSE IF DataExceeds(dataStart, dataSize, len) THEN WalkReturn
           ELSE /\ resources' = Append(resources,
                       [id |-> ReadUInt16BE(buffer, offset + 4),
                        name |-> ResourceName(buffer, offset, nameLength),
                        data |-> Slice(buffer, dataStart, dataEnd),
                        dataSize |-> dataSize])
                /\ dataStarts' = Append(dataStarts, dataStart)
                /\ offset' = NextOffset(dataEnd, dataSize)
                /\ UNCHANGED <<pc, err, ifds, buffer, altIndex, attempts, layers,
                             result, fixture, earlier, diagnostics, log>>

(***************************************************************************)
(* Inputs of the walker: encoded resources, a tail, cut at any length.     *)
(***************************************************************************)
UInt16Bytes(n) == <<(n \div 256) % 256, n % 256>>
UInt32Bytes(n) ==
    <<(n \div 16777216) % 256, (n \div 65536) % 256, (n \div 256) % 256, n % 256>>
Fill(n, b) == [i \in 1..n |-> b]

\* a resource laid out the way the walker reads it
EncodeResource(id, name, dataSize, data) ==
    Str8BIM \o UInt16Bytes(id) \o <<Len(name)>> \o name
        \o Fill(IF Len(name) % 2 = 0 THEN 1 ELSE 2, 0)
        \o UInt32Bytes(dataSize) \o data
        \o Fill(Len(data) % 2, 0)

RECURSIVE Concat(_)
Concat(ss) == IF ss = <<>> THEN <<>> ELSE Head(ss) \o Concat(Tail(ss))

WalkerShape == [nameLen : 0..MaxNameLen, size : 0..MaxDataSize]
WalkerTails ==
    { <<>>,
      <<56, 66, 73, 78, 3, 233, 0, 0, 0, 0, 0, 0>>,     \* "8BIN": not a signature
      <<184, 66, 73, 77, 3, 233, 0, 0, 0, 0, 0, 0>> }   \* "8BIM" with a high bit set

WalkerBlock(shapes) ==
    Concat([i \in 1..Len(shapes) |->
        EncodeResource(1000 + i, Fill(shapes[i].nameLen, 96 + i),
                       shapes[i].size, Fill(shapes[i].size, i))])

\* up to MaxRes resources and a tail, cut at any length
CutBlocks ==
    /\ \E n \in 1..MaxRes : \E shapes \in [1..n -> WalkerShape] :
       \E tail \in WalkerTails :
          /\ tail # <<>> => n = 1
          /\ \E cut \in 0..Len(WalkerBlock(shapes) \o tail) :
                buffer = SubSeq(WalkerBlock(shapes) \o tail, 1, cut)
    /\ fixture = NoFixture

\* one empty resource under every value of the name-length byte, its name
\* padded as the walker reads it or to an even length-byte-plus-name total
NameLengthBlocks ==
    \E nameLength \in 0..255 : \E evenTotal \in BOOLEAN :
       /\ buffer = IF evenTotal
                   THEN Str8BIM \o UInt16Bytes(1001) \o <<nameLength>>
                          \o Fill(nameLength, 97) \o Fill((nameLength + 1) % 2, 0)
                          \o UInt32Bytes(0) \o Fill(2, 0)
                   ELSE EncodeResource(1001, Fill(nameLength, 97), 0, <<>>)
       /\ fixture = [kind |-> "nameLength", nameLength |-> nameLength]

\* a resource whose data is itself the bytes of a resource, then one more
NestedBlocks ==
    \E inner \in WalkerShape : \E nameLen \in 0..MaxNameLen :
       LET data == EncodeResource(1002, Fill(inner.nameLen, 98),
                                  inner.size, Fill(inner.size, 2))
       IN  /\ buffer = EncodeResource(1001, Fill(nameLen, 97), Len(data), data)
                          \o EncodeResource(1003, <<>>, 1, <<3>>)
           /\ fixture = [kind |-> "nested"]

InitWalker ==
    /\ pc = "walk"
    /\ err = NoError
    /\ ifds = <<>>
    /\ \/ CutBlocks
       \/ NameLengthBlocks
       \/ NestedBlocks
    /\ offset = 0
    /\ resources = <<>>
    /\ dataStarts = <<>>
    /\ altIndex = 1
    /\ attempts = <<>>
    /\ layers = <<>>
    /\ result = NoResult
    /\ earlier = NoEarlier
    /\ diagnostics = "on"
    /\ log = <<>>

NextWalker == WalkStep

SpecWalker == InitWalker /\ [][NextWalker]_vars

\* the loop is a sequential program: its next iteration always runs
SpecWalkerFair == SpecWalker /\ WF_vars(NextWalker)

(***************************************************************************)
(* parseLayerAndMaskInfo                                                   *)
(***************************************************************************)
RECURSIVE Decimal(_)
Decimal(n) == IF n < 10 THEN <<48 + n>> ELSE Decimal(n \div 10) \o <<48 + (n % 10)>>

DefaultLayerNameFromZero(i) == <<76, 97, 121, 101, 114, 32>> \o Decimal(i)

\* `Layer ${i + 1}`
DefaultLayerName(i) == <<76, 97, 121, 101, 114, 32>> \o Decimal(i + 1)

VisibleByLowestBit(flags) == flags % 2 = 0

\* (flags & 0x02) === 0
Visible(flags) == (flags \div 2) % 2 = 0

\* for (c = 0; c < channelCount; c++) { if (offset + 6 > length) break; offset += 6 }
RECURSIVE SkipChannels(_, _, _, _)
SkipChannels(buf, off, c, channelCount) ==
    IF ~(c < channelCount) THEN off
    ELSE IF off + 6 > Len(buf) THEN off
    ELSE SkipChannels(buf, off + 6, c + 1, channelCount)

\* the search of the additional layer information for a luni or lnam block,
\* from localOffset on; `name` is the name kept when none is found
RECURSIVE FindLayerName(_, _, _, _)
FindLayerName(buf, localOffset, extraDataEnd, name) ==
    IF ~(localOffset < extraDataEnd - 12) THEN name
    ELSE IF localOffset + 12 > Len(buf) THEN name
    ELSE IF ToAscii(buf, localOffset, localOffset + 4) # Str8BIM THEN name
    ELSE LET key == ToAscii(buf, localOffset + 4, localOffset + 8)
             length == ReadUInt32BE(buf, localOffset + 8)
             dataStart == localOffset + 12
             paddedLength == length + (length % 2)
             next == FindLayerName(buf, localOffset + 12 + paddedLength,
                                   extraDataEnd, name)
         IN  IF key = StrLuni /\ dataStart + 4 <= Len(buf)
             THEN LET nameLength == ReadUInt32BE(buf, dataStart)
                      nameEnd == dataStart + 4 + nameLength * 2
                  IN  IF nameEnd <= Len(buf)
                      THEN ToUtf16le(buf, dataStart + 4, nameEnd)
                      ELSE next
             ELSE IF key = StrLnam /\ dataStart < Len(buf)
             THEN LET pascalLength == buf[dataStart + 1]
                      nameEnd == dataStart + 1 + pascalLength
                  IN  IF nameEnd <= Len(buf)
                      THEN ToAscii(buf, dataStart + 1, nameEnd)
                      ELSE next
             ELSE next

TrailerEndPadded(extraDataStart, extraDataLength) ==
    extraDataStart + extraDataLength + (extraDataLength % 2)

\* const extraDataEnd = extraDataStart + extraDataLength
TrailerEnd(extraDataStart, extraDataLength) == extraDataStart + extraDataLength

\* the record loop from iteration i with the cursor at off; acc holds the
\* layers pushed so far
RECURSIVE ParseLayerRecords(_, _, _, _, _)
ParseLayerRecords(buf, off, i, absLayerCount, acc) ==
    IF ~(i < absLayerCount) THEN acc
    ELSE IF off + 16 > Len(buf) THEN acc
    ELSE IF off + 16 + 2 > Len(buf) THEN acc
    ELSE
    LET top == ReadInt32BE(buf, off)
        left == ReadInt32BE(buf, off + 4)
        bottom == ReadInt32BE(buf, off + 8)
        right == ReadInt32BE(buf, off + 12)
        channelCount == ReadUInt16BE(buf, off + 16)
        blendOffset == SkipChannels(buf, off + 18, 0, channelCount)
    IN
    IF blendOffset + 12 > Len(buf) THEN acc
    ELSE IF blendOffset + 12 + 4 > Len(buf) THEN acc
    ELSE
    LET blendMode == ToAscii(buf, blendOffset + 4, blendOffset + 8)
        opacity == ReadUInt8(buf, blendOffset + 8)
        flags == ReadUInt8(buf, blendOffset + 10)
        extraDataLength == ReadUInt32BE(buf, blendOffset + 12)
        extraDataStart == blendOffset + 16
        extraDataEnd == TrailerEnd(extraDataStart, extraDataLength)
        layerName == FindLayerName(buf, extraDataStart, extraDataEnd,
                                   DefaultLayerName(i))
        layer == [name |-> layerName, top |-> top, left |-> left,
                  bottom |-> bottom, right |-> right,
                  width |-> right - left, height |-> bottom - top,
                  blendMode |-> blendMode, opacity |-> opacity,
                  flags |-> flags, visible |-> Visible(flags),
                  channelCount |-> channelCount, channels |-> <<>>]
    IN  ParseLayerRecords(buf, extraDataEnd, i + 1, absLayerCount,
                          Append(acc, layer))

AbsOfPositive(n) == n

\* Math.abs(layerCount)
Abs(n) == IF n < 0 THEN -n ELSE n

Returned(ls) == [threw |-> FALSE, message |-> NoError, layers |-> ls]
ThrownAsEmpty(msg) == Returned(<<>>)
Thrown(msg) == [threw |-> TRUE, message |-> msg, layers |-> <<>>]

ParseLayerInfoUnconditionally(buf) ==
    IF Len(buf) < 8 THEN Thrown("Buffer too small for layer info")
    ELSE IF 8 + 2 > Len(buf) THEN Thrown("Buffer too small for layer count")
    ELSE Returned(ParseLayerRecords(buf, 10, 0, Abs(ReadInt16BE(buf, 8)), <<>>))

ParseLayerInfoWithoutCountCheck(buf) ==
    IF Len(buf) < 8 THEN Thrown("Buffer too small for layer info")
    ELSE IF ReadUInt32BE(buf, 4) = 0 THEN Returned(<<>>)
    ELSE IF 8 + 2 > Len(buf) THEN Returned(<<>>)
    ELSE Returned(ParseLayerRecords(buf, 10, 0, Abs(ReadInt16BE(buf, 8)), <<>>))

ParseLayerAndMaskInfo(buf) ==
    IF Len(buf) < 8 THEN Thrown("Buffer too small for layer info")
    ELSE IF ReadUInt32BE(buf, 4) = 0 THEN Returned(<<>>)
    ELSE IF 8 + 2 > Len(buf) THEN Thrown("Buffer too small for layer count")
    ELSE Returned(ParseLayerRecords(buf, 10, 0, Abs(ReadInt16BE(buf, 8)), <<>>))

\* A direct call of parseLayerAndMaskInfo(buffer).
ParseLayers ==
    /\ pc = "parse"
    /\ LET r == ParseLayerAndMaskInfo(buffer)
       IN  /\ pc' = IF r.threw THEN "error" ELSE "done"
           /\ err' = r.message
           /\ layers' = r.layers
    /\ UNCHANGED <<ifds, buffer, offset, resources, dataStarts, altIndex,
                   attempts, result, fixture, earlier, diagnostics, log>>

(***************************************************************************)
(* Inputs of the layer parser: a layer-and-mask-info section of n records  *)
(* declaring n (or -n) layers, cut at any length.  The trailers of the     *)
(* records run through TrailerKinds from the kind of the first record.     *)
(***************************************************************************)
Int16Bytes(n) == UInt16Bytes(IF n < 0 THEN n + 65536 ELSE n)

TrailerKinds == <<"none", "lnam", "luni", "other", "nosig">>

StrLyid == <<108, 121, 105, 100>>
SubBlock(key, payload) ==
    Str8BIM \o key \o UInt32Bytes(Len(payload)) \o payload \o Fill(Len(payload) % 2, 0)

\* the name of the i-th crafted layer: "La", "Lb", ...
CraftedName(i) == <<76, 96 + i>>
Utf16leBytes(str) == Concat([j \in 1..Len(str) |-> <<str[j] % 256, str[j] \div 256>>])

Trailer(kind, i) ==
    CASE kind = "none" -> <<>>
      [] kind = "lnam" -> SubBlock(StrLnam, <<2>> \o CraftedName(i))
      [] kind = "luni" -> SubBlock(StrLuni, UInt32Bytes(2) \o Utf16leBytes(CraftedName(i)))
      [] kind = "other" -> SubBlock(StrLyid, UInt32Bytes(i))
                             \o SubBlock(StrLnam, <<2>> \o CraftedName(i))
      [] kind = "nosig" -> Fill(16, 32)

\* the bytes of record i up to and including the extra-data length field
RecordHead(i, channelCount, blendMode, flags, trailerLen) ==
    UInt32Bytes(0) \o UInt32Bytes(0) \o UInt32Bytes(10 * i) \o UInt32Bytes(20)
        \o UInt16Bytes(channelCount)
        \o Concat([c \in 1..channelCount |-> UInt16Bytes(c - 1) \o UInt32Bytes(2)])
        \o Str8BIM \o blendMode \o <<255, 0, flags, 0>>
        \o UInt32Bytes(trailerLen)

EncodeLayer(i, channelCount, blendMode, flags, kind) ==
    RecordHead(i, channelCount, blendMode, flags, Len(Trailer(kind, i)))
        \o Trailer(kind, i)

LayerInfoHeader(layerCount) ==
    UInt32Bytes(0) \o UInt32Bytes(1) \o Int16Bytes(layerCount)

\* the offsets at which the trailer of each record starts and ends
RECURSIVE Offsets(_, _)
Offsets(lens, from) ==
    IF lens = <<>> THEN <<>>
    ELSE <<from + Head(lens)>> \o Offsets(Tail(lens), from + Head(lens))

\* a section declaring n records, each laid out in full, cut at any length
LayerSections ==
    \E n \in 1..MaxLayers : \E channelCount \in 0..MaxChannels :
    \E first \in 1..Len(TrailerKinds) : \E sign \in {1, -1} :
       LET kinds == [i \in 1..n |-> ((first + i - 2) % Len(TrailerKinds)) + 1]
           recs == [i \in 1..n |->
                      EncodeLayer(i, channelCount, StrNorm, 0, TrailerKinds[kinds[i]])]
           full == LayerInfoHeader(sign * n) \o Concat(recs)
           ends == Offsets([i \in 1..n |-> Len(recs[i])], 10)
       IN  \E cut \in 0..Len(full) :
              /\ buffer = SubSeq(full, 1, cut)
              /\ fixture = [kind |-> "layers", declared |-> n,
                            channelCount |-> channelCount,
                            kinds |-> [i \in 1..n |-> TrailerKinds[kinds[i]]],
                            recordEnds |-> ends,
                            trailerStarts |-> [i \in 1..n |->
                                ends[i] - Len(Trailer(TrailerKinds[kinds[i]], i))]]

\* values of the first length field, which the parser reads and does not use
TotalLengths == {0, 1, 16909060}

\* a section whose layer-info length is zero, followed by the bytes of a
\* layer count and of records, cut at any length
EmptyLayerInfoSections ==
    \E total \in TotalLengths : \E n \in 1..MaxLayers :
    \E channelCount \in 0..MaxChannels : \E sign \in {1, -1} :
       LET recs == [i \in 1..n |-> EncodeLayer(i, channelCount, StrNorm, 0, "lnam")]
           full == UInt32Bytes(total) \o UInt32Bytes(0)
                      \o Int16Bytes(sign * n) \o Concat(recs)
       IN  \E cut \in 0..Len(full) :
              /\ buffer = SubSeq(full, 1, cut)
              /\ fixture = [kind |-> "emptyLayerInfo"]

\* a section of one whole record carrying any flags byte
FlagsSections ==
    \E flags \in 0..255 :
       /\ buffer = LayerInfoHeader(1) \o EncodeLayer(1, 0, StrNorm, flags, "none")
       /\ fixture = [kind |-> "flags", flags |-> flags]

\* bytes zero-filled to a length of n
PadTo(bytes, n) == bytes \o Fill(n - Len(bytes), 0)

\* what the trailer of the first record holds in a section of two records
TrailerVariants ==
    {"lnam", "nosig", "otherOnly", "bigLength", "lnamLong", "luniLong",
     "lnamBeyond", "luniBeyond"}

\* declared lengths of that trailer
TrailerLengths == {24, 25}

\* the trailer of `length` bytes: one sub-block, zero-filled to the length.
\* "Long" names run past the trailer into the next record, "Beyond" names
\* past the buffer; "bigLength" is a block that claims 1000 bytes
VariantTrailer(variant, length) ==
    LET block(key, len, payload) == Str8BIM \o key \o UInt32Bytes(len) \o payload
    IN  PadTo(CASE variant = "lnam" -> block(StrLnam, 3, <<2>> \o CraftedName(1))
                [] variant = "nosig" -> Fill(16, 32)
                [] variant = "otherOnly" -> block(StrLyid, 4, UInt32Bytes(1))
                [] variant = "bigLength" -> block(StrLyid, 1000, UInt32Bytes(1))
                [] variant = "lnamLong" -> block(StrLnam, 4, <<length>> \o CraftedName(1))
                [] variant = "luniLong" -> block(StrLuni, 8, UInt32Bytes(10))
                [] variant = "lnamBeyond" -> block(StrLnam, 4, <<255>> \o CraftedName(1))
                [] variant = "luniBeyond" -> block(StrLuni, 8, UInt32Bytes(1000)),
              length)

\* a whole section of two records: the trailer of the first is a variant,
\* the second is the same in every buffer
TrailerSections ==
    \E variant \in TrailerVariants : \E length \in TrailerLengths :
       LET head == LayerInfoHeader(2) \o RecordHead(1, 0, StrNorm, 0, length)
       IN  /\ buffer = head \o VariantTrailer(variant, length)
                             \o EncodeLayer(2, 0, StrNorm, 0, "lnam")
           /\ fixture = [kind |-> "trailers", variant |-> variant,
                         trailerStart |-> Len(head),
                         trailerEnd |-> Len(head) + length]

\* channel counts a record declares
ChannelCounts == {2, 65535}

\* one record that declares more channels than its table holds
ChannelSections ==
    \E declared \in ChannelCounts : \E present \in 0..MaxChannels :
    \E blend \in BOOLEAN :
       /\ buffer = LayerInfoHeader(1) \o Fill(16, 0) \o UInt16Bytes(declared)
                      \o Concat([c \in 1..present |-> UInt16Bytes(c - 1) \o UInt32Bytes(2)])
                      \o (IF blend THEN Str8BIM \o StrNorm \o <<255, 0, 0, 0>>
                                          \o UInt32Bytes(0)
                          ELSE <<>>)
       /\ fixture = [kind |-> "channels"]

InitLayers ==
    /\ pc = "parse"
    /\ err = NoError
    /\ ifds = <<>>
    /\ \/ LayerSections
       \/ EmptyLayerInfoSections
       \/ FlagsSections
       \/ TrailerSections
       \/ ChannelSections
    /\ offset = 0
    /\ resources = <<>>
    /\ dataStarts = <<>>
    /\ altIndex = 1
    /\ attempts = <<>>
    /\ layers = <<>>
    /\ result = NoResult
    /\ earlier = NoEarlier
    /\ diagnostics = "on"
    /\ log = <<>>

NextLayers == ParseLayers

SpecLayers == InitLayers /\ [][NextLayers]_vars

(***************************************************************************)
(* Claims about parseLayerAndMaskInfo, checked under SpecLayers.           *)
(***************************************************************************)

\* the number of records that lie whole inside the buffer
CompleteRecords ==
    Cardinality({j \in 1..fixture.declared : fixture.recordEnds[j] <= Len(buffer)})

\* C4: when the buffer ends inside record k+1 after k complete records, with
\* k less than the declared layer count, the parser returns exactly k records.
C4_TruncatedReturnsCompleteRecords ==
    (pc = "done" /\ fixture.kind = "layers" /\ CompleteRecords < fixture.declared)
        => Len(layers) = CompleteRecords

\* C11: on a buffer shorter than 8 bytes the call fails with the
\* buffer-too-small error and gives no layer record.
C11_ShortBufferFails ==
    (pc # "parse" /\ Len(buffer) < 8) =>
        /\ pc = "error"
        /\ err = "Buffer too small for layer info"
        /\ layers = <<>>

\* the call failed on a buffer of 7 bytes
C11_Witness == pc = "error" /\ Len(buffer) = 7

\* C12: on a buffer of at least 8 bytes whose second big-endian uint32
\* (layerInfoLength) is zero the call returns the empty sequence without an
\* error, whatever the first field and the bytes from offset 8 on hold.
C12_ZeroLayerInfoLengthIsEmpty ==
    (pc # "parse" /\ Len(buffer) >= 8 /\ ReadUInt32BE(buffer, 4) = 0) =>
        /\ pc = "done"
        /\ err = NoError
        /\ layers = <<>>

\* the call returned on a section with a non-zero first field, a zero
\* layer-info length and the bytes of a whole record after offset 8
C12_Witness ==
    /\ pc = "done"
    /\ fixture.kind = "emptyLayerInfo"
    /\ Len(buffer) > 36
    /\ ReadUInt32BE(buffer, 0) # 0
    /\ ReadUInt32BE(buffer, 4) = 0
    /\ ReadInt16BE(buffer, 8) # 0

\* the name the i-th laid-out record carries: the one in its lnam or luni
\* block, else "Layer <i>"
ExpectedName(kind, i) ==
    IF kind \in {"lnam", "luni", "other"} THEN CraftedName(i)
    ELSE <<76, 97, 121, 101, 114, 32, 48 + i>>

\* the j-th returned record was built from the bytes of the j-th record
BuiltFromRecord(j) ==
    /\ layers[j].top = 0
    /\ layers[j].left = 0
    /\ layers[j].bottom = 10 * j
    /\ layers[j].right = 20
    /\ layers[j].channelCount = fixture.channelCount
    /\ layers[j].blendMode = StrNorm
    /\ layers[j].opacity = 255
    /\ layers[j].flags = 0
    /\ fixture.recordEnds[j] <= Len(buffer)
          => layers[j].name = ExpectedName(fixture.kinds[j], j)

\* C13: when the buffer holds all abs(layerCount) declared records in full,
\* exactly abs(layerCount) records are returned, the i-th built from the
\* i-th record's bytes; fewer are returned only when the buffer is too short
\* for a declared record, and never more.
C13_AllDeclaredRecordsInOrder ==
    (pc = "done" /\ fixture.kind = "layers") =>
        /\ Len(layers) <= fixture.declared
        /\ CompleteRecords = fixture.declared => Len(layers) = fixture.declared
        /\ Len(layers) < fixture.declared => CompleteRecords < fixture.declared
        /\ \A j \in 1..Len(layers) : BuiltFromRecord(j)

\* a whole section of two records under a negative layer count was parsed
C13_Witness ==
    /\ pc = "done"
    /\ fixture.kind = "layers"
    /\ fixture.declared = 2
    /\ CompleteRecords = 2
    /\ ReadInt16BE(buffer, 8) = -2
    /\ fixture.channelCount = 1
    /\ Len(layers) = 2

\* bit 1 (0x02) of a byte is set
Bit1Set(b) == b % 4 >= 2

\* C15: every returned record is visible exactly when bit 1 (0x02) of its
\* flags byte is unset, for each of the 256 values of the byte (0x00 and 0xFD
\* visible; 0x02 and 0x03 hidden), and its flags field is the byte read.
C15_VisibleIffBit1Unset ==
    pc = "done" =>
        /\ \A j \in 1..Len(layers) :
              layers[j].visible <=> ~Bit1Set(layers[j].flags)
        /\ fixture.kind = "flags" =>
              /\ Len(layers) = 1
              /\ layers[1].flags = fixture.flags
              /\ layers[1].flags = ReadUInt8(buffer, 38)
              /\ fixture.flags \in {0, 253} => layers[1].visible
              /\ fixture.flags \in {2, 3} => ~layers[1].visible

\* a record with flags 0xFD was returned visible
C15_Witness ==
    /\ pc = "done"
    /\ fixture.kind = "flags"
    /\ fixture.flags = 253
    /\ Len(layers) = 1
    /\ layers[1].visible

(***************************************************************************)
(* extractPhotoshopTag and readLayersFromTiff                              *)
(***************************************************************************)
PhotoshopTag == 34377
LayerInfoId == 1058
AlternativeResourcesSwapped == <<1050, 1036, 1083, 1082>>
AlternativeResources == <<1036, 1050, 1083, 1082>>
MinAlternativeSize == 100
SkipSizes == <<0, 4, 8, 12, 16, 28>>

\* the first IFD that carries the tag, wherever it is
ExtractFromAnyIfd(dirs) ==
    IF \E i \in 1..Len(dirs) : PhotoshopTag \in DOMAIN dirs[i].tags
    THEN [found |-> TRUE,
          block |-> dirs[CHOOSE i \in 1..Len(dirs) :
                           /\ PhotoshopTag \in DOMAIN dirs[i].tags
                           /\ \A j \in 1..(i - 1) :
                                 PhotoshopTag \notin DOMAIN dirs[j].tags].tags[PhotoshopTag]]
    ELSE [found |-> FALSE, block |-> <<>>]

\* extractPhotoshopTag: ifds[0].t34377, or null
ExtractPhotoshopTag(dirs) ==
    IF Len(dirs) = 0 THEN [found |-> FALSE, block |-> <<>>]
    ELSE IF PhotoshopTag \in DOMAIN dirs[1].tags
         THEN [found |-> TRUE, block |-> dirs[1].tags[PhotoshopTag]]
         ELSE [found |-> FALSE, block |-> <<>>]

FindLast(rs, id) ==
    IF \E i \in 1..Len(rs) : rs[i].id = id
    THEN CHOOSE i \in 1..Len(rs) :
            rs[i].id = id /\ \A j \in (i + 1)..Len(rs) : rs[j].id # id
    ELSE 0

\* resources.find(r => r.id === id): the index of the first match, 0 for none
Find(rs, id) ==
    IF \E i \in 1..Len(rs) : rs[i].id = id
    THEN CHOOSE i \in 1..Len(rs) :
            rs[i].id = id /\ \A j \in 1..(i - 1) : rs[j].id # id
    ELSE 0

ManifestWithoutNames(rs) ==
    [i \in 1..Len(rs) |-> [id |-> rs[i].id, name |-> <<>>, size |-> rs[i].dataSize]]

\* resources.map(r => ({ id: r.id, name: r.name, size: r.dataSize }))
ManifestOfNonEmpty(rs) ==
    LET keep == {i \in 1..Len(rs) : rs[i].dataSize > 0}
        nth(k) == CHOOSE i \in keep : Cardinality({j \in keep : j < i}) = k - 1
    IN  [k \in 1..Cardinality(keep) |->
            [id |-> rs[nth(k)].id, name |-> rs[nth(k)].name, size |-> rs[nth(k)].dataSize]]
Manifest(rs) ==
    [i \in 1..Len(rs) |-> [id |-> rs[i].id, name |-> rs[i].name, size |-> rs[i].dataSize]]

\* Array.isArray(v) ? v[0] : dflt, for a tag of the first IFD
FirstOr(ifd, tag, dflt) ==
    IF tag \in DOMAIN ifd.tags THEN ifd.tags[tag][1] ELSE dflt

LayerDataEveryNonNorm(firstIfd, ls, rs) ==
    [width |-> firstIfd.width,
     height |-> firstIfd.height,
     channels |-> FirstOr(firstIfd, 277, 3),
     bitsPerChannel |-> FirstOr(firstIfd, 258, 8),
     colorMode |-> "RGB",
     layers |-> ls,
     hasTransparency |-> \A i \in 1..Len(ls) : ls[i].blendMode # StrNorm,
     totalLayers |-> Len(ls),
     resources |-> Manifest(rs)]

\* the TiffLayerData built at lines 407-417, 442-452, 469-479 and 492-502
LayerData(firstIfd, ls, rs) ==
    [width |-> firstIfd.width,
     height |-> firstIfd.height,
     channels |-> FirstOr(firstIfd, 277, 3),
     bitsPerChannel |-> FirstOr(firstIfd, 258, 8),
     colorMode |-> "RGB",
     layers |-> ls,
     hasTransparency |-> \E i \in 1..Len(ls) : ls[i].blendMode # StrNorm,
     totalLayers |-> Len(ls),
     resources |-> Manifest(rs)]

\* if (!layerResource): the fallback strategy runs
UseFallbackWhenNoLayers(rs) ==
    \/ Find(rs, LayerInfoId) = 0
    \/ ParseLayerAndMaskInfo(rs[Find(rs, LayerInfoId)].data).layers = <<>>
UseFallback(rs) == Find(rs, LayerInfoId) = 0

\* the loop over skipSizes, from position k: the first skip whose parse yields
\* layers; `tried` lists the skips parsed
RECURSIVE TrySkips(_, _, _)
TrySkips(data, k, tried) ==
    IF k > Len(SkipSizes) THEN [found |-> FALSE, layers |-> <<>>, tried |-> tried]
    ELSE LET skip == SkipSizes[k]
             r == ParseLayerAndMaskInfo(Slice(data, skip, Len(data)))
         IN  IF ~(skip < Len(data) - 8) THEN TrySkips(data, k + 1, tried)
             ELSE IF ~r.threw /\ Len(r.layers) > 0
                  THEN [found |-> TRUE, layers |-> r.layers,
                        tried |-> Append(tried, skip)]
                  ELSE TrySkips(data, k + 1, Append(tried, skip))

LeftoverResources == resources

\* const resources: PhotoshopResource[] = [], a local of each walker call
FreshResources == <<>>

\* analyzeTiffStructure without its try/catch
AnalyzeTiffStructureUncaught(dirs, bodyFails) ==
    [threw |-> bodyFails,
     lines |-> IF bodyFails THEN <<>>
               ELSE <<"IFDs found">> \o [i \in 1..Len(dirs) |-> "IFD"]]

\* analyzeTiffStructure, lines 268-298: the body logs the IFDs; whatever it
\* throws is caught and logged
AnalyzeTiffStructure(dirs, bodyFails) ==
    [threw |-> FALSE,
     lines |-> IF bodyFails THEN <<"Error analyzing TIFF structure">>
               ELSE <<"IFDs found">> \o [i \in 1..Len(dirs) |-> "IFD"]]

\* lines 324-339: one dump per resource; slice and toString do not throw
ResourceDump(rs) == [i \in 1..Len(rs) |-> "Resource"]

\* for (i = 0; i < Math.min(data.length - 4, 1000); i++)
ScanLimit(len) == Min(len - 4, 1000)

\* lines 377-394: data.slice(i, i + 4).readUInt32BE(0) throws on a slice of
\* fewer than 4 bytes
CandidateDumpThrows(data) ==
    \E i \in 0..(ScanLimit(Len(data)) - 1) : Len(Slice(data, i, i + 4)) < 4

\* lines 311-322: the analysis, the tag lookup, then the walker starts on
\* the block
ReadStart ==
    /\ pc = "read"
    /\ LET analysis == IF diagnostics = "off" THEN [threw |-> FALSE, lines |-> <<>>]
                       ELSE AnalyzeTiffStructure(ifds, diagnostics = "failing")
           tag == ExtractPhotoshopTag(ifds)
       IN  IF analysis.threw
           THEN /\ pc' = "error"
                /\ err' = "analysis failed"
                /\ log' = log \o analysis.lines
                /\ UNCHANGED <<buffer, offset, resources, dataStarts>>
           ELSE IF ~tag.found
           THEN /\ pc' = "error"
                /\ err' = "No Photoshop tag (34377) found in TIFF"
                /\ log' = log \o analysis.lines
                /\ UNCHANGED <<buffer, offset, resources, dataStarts>>
           \* parse8BIMResources(photoshopData) starts: lines 39-40
           ELSE /\ pc' = "walk"
                /\ buffer' = tag.block
                /\ offset' = 0
                /\ resources' = FreshResources
                /\ dataStarts' = <<>>
                /\ log' = log \o analysis.lines
                /\ UNCHANGED err
    /\ UNCHANGED <<ifds, altIndex, attempts, layers, result, fixture, earlier,
                   diagnostics>>

\* lines 324-346 and 482-506: the resource dump, then the canonical
\* resource, parsed when present
SelectLayerResource ==
    /\ pc = "walked"
    /\ log' = IF diagnostics = "off" THEN log ELSE log \o ResourceDump(resources)
    /\ IF UseFallback(resources)
       THEN /\ pc' = "fallback"
            /\ altIndex' = 1
            /\ UNCHANGED <<err, attempts, result>>
       ELSE LET k == Find(resources, LayerInfoId)
                r == ParseLayerAndMaskInfo(resources[k].data)
            IN  /\ attempts' = Append(attempts,
                        [id |-> LayerInfoId, index |-> k, how |-> "direct", skip |-> 0])
                /\ IF r.threw
                   THEN /\ pc' = "error"
                        /\ err' = r.message
                        /\ UNCHANGED result
                   ELSE /\ pc' = "done"
                        /\ result' = LayerData(ifds[1], r.layers, resources)
                        /\ UNCHANGED err
                /\ UNCHANGED altIndex
    /\ UNCHANGED <<ifds, buffer, offset, resources, dataStarts,
                   layers, fixture, earlier, diagnostics>>

\* lines 351-463: one iteration of the loop over alternativeResources
TryAlternative ==
    /\ pc = "fallback"
    /\ altIndex <= Len(AlternativeResources)
    /\ LET resourceId == AlternativeResources[altIndex]
           k == Find(resources, resourceId)
           data == resources[k].data
           direct == ParseLayerAndMaskInfo(data)
           bySkip == TrySkips(data, 1, <<>>)
           entry(how, skip) ==
               [id |-> resourceId, index |-> k, how |-> how, skip |-> skip]
           skipEntries ==
               [j \in 1..Len(bySkip.tried) |-> entry("skip", bySkip.tried[j])]
           dumped == diagnostics # "off"
       IN  IF ~(k # 0 /\ resources[k].dataSize > MinAlternativeSize)
           THEN /\ altIndex' = altIndex + 1
                /\ UNCHANGED <<pc, err, attempts, result, log>>
           \* lines 354-394: the dump of the candidate, outside the try
           ELSE IF dumped /\ CandidateDumpThrows(data)
           THEN /\ pc' = "error"
                /\ err' = "ERR_OUT_OF_RANGE"
                /\ log' = Append(log, "Candidate")
                /\ UNCHANGED <<altIndex, attempts, result>>
           ELSE
           /\ log' = IF dumped THEN Append(log, "Candidate") ELSE log
           /\ UNCHANGED err
           /\ IF ~direct.threw /\ Len(direct.layers) > 0
              THEN /\ pc' = "done"
                   /\ attempts' = Append(attempts, entry("direct", 0))
                   /\ result' = LayerData(ifds[1], direct.layers, resources)
                   /\ UNCHANGED altIndex
              ELSE IF ~direct.threw
              THEN /\ altIndex' = altIndex + 1
                   /\ attempts' = Append(attempts, entry("direct", 0))
                   /\ UNCHANGED <<pc, result>>
              \* catch (error)
              ELSE IF resourceId = 1036 /\ bySkip.found
              THEN /\ pc' = "done"
                   /\ attempts' = Append(attempts, entry("direct", 0)) \o skipEntries
                   /\ result' = LayerData(ifds[1], bySkip.layers, resources)
                   /\ UNCHANGED altIndex
              ELSE /\ altIndex' = altIndex + 1
                   /\ attempts' = Append(attempts, entry("direct", 0))
                                     \o (IF resourceId = 1036 THEN skipEntries ELSE <<>>)
                   /\ UNCHANGED <<pc, result>>
    /\ UNCHANGED <<ifds, buffer, offset, resources, dataStarts, layers,
                   fixture, earlier, diagnostics>>

\* lines 465-479: no alternative gave layers
FallbackExhausted ==
    /\ pc = "fallback"
    /\ altIndex > Len(AlternativeResources)
    /\ pc' = "done"
    /\ result' = LayerData(ifds[1], <<>>, resources)
    /\ UNCHANGED <<err, ifds, buffer, offset, resources, dataStarts, altIndex,
                   attempts, layers, fixture, earlier, diagnostics, log>>

(***************************************************************************)
(* Inputs of readLayersFromTiff: the decoded IFDs of a TIFF whose          *)
(* Photoshop block holds up to MaxOther unrelated resources, then at most  *)
(* one resource for each of the IDs 1058, 1036, 1050, 1083, 1082 (in that  *)
(* order or reversed), then possibly a header cut after its resource ID.   *)
(***************************************************************************)
StrMul == <<109, 117, 108, 32>>

\* a section with one layer, named CraftedName(i)
OneLayer(i) == LayerInfoHeader(1) \o EncodeLayer(i, 1, StrNorm, 0, "lnam")

\* "Background" and "Text Layer"
StrBackground == <<66, 97, 99, 107, 103, 114, 111, 117, 110, 100>>
StrTextLayer == <<84, 101, 120, 116, 32, 76, 97, 121, 101, 114>>

\* a record with blend mode "norm" whose one block names it: a Pascal string
\* under lnam, or a uint32 count and 16-bit little-endian units under luni
NamedRecord(i, key, name) ==
    LET block == IF key = StrLnam
                 THEN SubBlock(StrLnam, <<Len(name)>> \o name)
                 ELSE SubBlock(StrLuni, UInt32Bytes(Len(name)) \o Utf16leBytes(name))
    IN  RecordHead(i, 0, StrNorm, 0, Len(block)) \o block

\* a section of two layers, "Background" by lnam and "Text Layer" by luni
NamedLayers ==
    LayerInfoHeader(2) \o NamedRecord(1, StrLnam, StrBackground)
                       \o NamedRecord(2, StrLuni, StrTextLayer)

\* the payload kinds a resource is given
Payload(kind, i) ==
    CASE kind = "tiny" -> <<0, 0, 0>>
      [] kind = "empty" -> Fill(8, 0)
      [] kind = "small" -> OneLayer(i)
      [] kind = "two" -> LayerInfoHeader(-2) \o EncodeLayer(i, 1, StrNorm, 0, "lnam")
                            \o EncodeLayer(i + 1, 0, StrMul, 2, "luni")
      [] kind = "valid100" -> PadTo(OneLayer(i), 100)
      [] kind = "valid101" -> PadTo(OneLayer(i), 101)
      [] kind = "bigEmpty" -> Fill(120, 0)
      [] kind = "skip8" -> PadTo(Fill(8, 0) \o OneLayer(i), 150)
      [] kind = "named" -> NamedLayers
      [] kind = "mul101" ->
            PadTo(LayerInfoHeader(1) \o EncodeLayer(i, 1, StrMul, 0, "lnam"), 101)

CanonKinds == {"absent", "tiny", "empty", "small", "two", "named"}
AltKinds(i) ==
    CASE i = 1 -> {"absent", "valid100", "bigEmpty", "valid101", "skip8"}
      [] i = 2 -> {"absent", "valid100", "bigEmpty", "valid101"}
      [] OTHER -> {"absent", "bigEmpty", "valid101"}

ReadIds == <<1058, 1036, 1050, 1083, 1082>>

\* the block: kinds[j] is the payload kind of the resource with ID ReadIds[j]
ReadBlock(kinds, others, reversed, tail) ==
    LET enc(j) == IF kinds[j] = "absent" THEN <<>>
                  ELSE EncodeResource(ReadIds[j], <<>>,
                           Len(Payload(kinds[j], j)), Payload(kinds[j], j))
    IN  Concat([o \in 1..others |->
                  EncodeResource(1004 + o, <<111>>, o - 1, Fill(o - 1, o))])
          \o Concat([j \in 1..5 |-> enc(IF reversed THEN 6 - j ELSE j)])
          \o tail

ReadTails == {<<>>, <<56, 66, 73, 77, 4, 12>>}

UntaggedIfd == [width |-> 32, height |-> 16, tags |-> (258 :> <<8>>)]
TaggedIfd(block) ==
    [width |-> 64, height |-> 48,
     tags |-> (PhotoshopTag :> block) @@ (258 :> <<16, 16, 16, 16>>) @@ (277 :> <<4>>)]

IfdShapes == {"none", "untagged", "untaggedTagged", "tagged", "taggedUntagged"}
Ifds(shape, block) ==
    CASE shape = "none" -> <<>>
      [] shape = "untagged" -> <<UntaggedIfd>>
      [] shape = "untaggedTagged" -> <<UntaggedIfd, TaggedIfd(block)>>
      [] shape = "tagged" -> <<TaggedIfd(block)>>
      [] shape = "taggedUntagged" -> <<TaggedIfd(block), UntaggedIfd>>

\* at most one resource for each of the five IDs
SingleBlocks ==
    \E canon \in CanonKinds :
    \E a1 \in AltKinds(1), a2 \in AltKinds(2), a3 \in AltKinds(3), a4 \in AltKinds(4) :
    \E others \in 0..MaxOther, reversed \in BOOLEAN :
    \E tail \in ReadTails, shape \in IfdShapes :
       /\ canon # "absent" => {a1, a2, a3, a4} \subseteq {"absent", "valid101"}
       /\ tail # <<>> => (others = 0 /\ ~reversed)
       /\ shape # "tagged" => (others = 0 /\ ~reversed /\ tail = <<>>)
       /\ ifds = Ifds(shape, ReadBlock(<<canon, a1, a2, a3, a4>>, others,
                                       reversed, tail))
       /\ \/ diagnostics = "on"
          \/ /\ diagnostics = "failing"
             /\ {a1, a2, a3, a4} = {"absent"}
             /\ others = 0 /\ ~reversed /\ tail = <<>>

\* what the first of two resources with one ID holds
DuplicateFirstKinds == {"small", "bigEmpty", "mul101"}

\* two resources with the same one of the five IDs, the second holding one
\* layer in more than 100 bytes, then possibly a candidate with another ID
DuplicateBlocks ==
    \E d \in 1..Len(ReadIds) : \E firstKind \in DuplicateFirstKinds :
    \E another \in BOOLEAN :
       LET first == Payload(firstKind, d)
           second == PadTo(OneLayer(d + Len(ReadIds)), 101)
           a == IF d = Len(ReadIds) THEN d - 1 ELSE d + 1
       IN  /\ ifds = <<TaggedIfd(
                      EncodeResource(ReadIds[d], <<>>, Len(first), first)
                         \o EncodeResource(ReadIds[d], <<>>, Len(second), second)
                         \o (IF another
                             THEN EncodeResource(ReadIds[a], <<>>,
                                      Len(Payload("valid101", a)), Payload("valid101", a))
                             ELSE <<>>))>>
           /\ diagnostics \in {"on", "failing"}

Init ==
    /\ pc = "read"
    /\ err = NoError
    /\ \/ SingleBlocks
       \/ DuplicateBlocks
    /\ buffer = <<>>
    /\ offset = 0
    /\ resources = <<>>
    /\ dataStarts = <<>>
    /\ altIndex = 1
    /\ attempts = <<>>
    /\ layers = <<>>
    /\ result = NoResult
    /\ fixture = NoFixture
    /\ earlier = NoEarlier
    /\ log = <<>>

Next ==
    \/ ReadStart
    \/ WalkStep
    \/ SelectLayerResource
    \/ TryAlternative
    \/ FallbackExhausted

Spec == Init /\ [][Next]_vars

(***************************************************************************)
(* A second call of readLayersFromTiff on the same input, made after the   *)
(* first has returned or thrown.  The caller keeps the first outcome; the  *)
(* variables that model the locals of the first call keep their last       *)
(* values until the operations of the second call assign them.             *)
(***************************************************************************)
Outcome == [kind |-> pc, err |-> err, result |-> result, walked |-> resources]

CallAgain ==
    /\ pc \in {"done", "error"}
    /\ earlier = NoEarlier
    /\ earlier' = Outcome
    /\ pc' = "read"
    /\ err' = NoError
    /\ result' = NoResult
    /\ attempts' = <<>>
    /\ UNCHANGED <<ifds, buffer, offset, resources, dataStarts, altIndex,
                   layers, fixture, diagnostics, log>>

NextTwice ==
    \/ Next
    \/ CallAgain

SpecTwice == Init /\ [][NextTwice]_vars

(***************************************************************************)
(* A second call on the same input with the diagnostics left out:          *)
(* analyzeTiffStructure is not called and the resource and candidate dumps *)
(* are skipped.                                                            *)
(***************************************************************************)
CallWithoutDiagnostics ==
    /\ pc \in {"done", "error"}
    /\ earlier = NoEarlier
    /\ earlier' = Outcome
    /\ diagnostics' = "off"
    /\ pc' = "read"
    /\ err' = NoError
    /\ result' = NoResult
    /\ attempts' = <<>>
    /\ UNCHANGED <<ifds, buffer, offset, resources, dataStarts, altIndex,
                   layers, fixture, log>>

NextQuiet ==
    \/ Next
    \/ CallWithoutDiagnostics

SpecQuiet == Init /\ [][NextQuiet]_vars

(***************************************************************************)
(* Claims about parse8BIMResources, checked under SpecWalker.              *)
(***************************************************************************)

\* C1: every resource the walker has emitted has its data window inside the
\* buffer (dataStart + dataSize <= buffer length) and its data holds exactly
\* dataSize bytes.
C1_DataWindowInsideBuffer ==
    \A i \in 1..Len(resources) :
        /\ dataStarts[i] + resources[i].dataSize <= Len(buffer)
        /\ Len(resources[i].data) = resources[i].dataSize

\* a resource with data was emitted and the walk stopped before the end of
\* the buffer
C1_Witness ==
    /\ pc = "walked"
    /\ Len(resources) >= 1
    /\ resources[Len(resources)].dataSize > 0
    /\ offset < Len(buffer)

\* C2: the walker raises no error on any buffer, however its last resource
\* header is cut off.
C2_WalkerNeverRaises == pc # "error"

\* the header at the cursor is whole: signature, ID, name field and size field
C3_HeaderWhole ==
    /\ offset + 7 <= Len(buffer)
    /\ ToAscii(buffer, offset, offset + 4) = Str8BIM
    /\ offset + 7 + PaddedNameLength(buffer[offset + 7]) + 4 <= Len(buffer)

\* ... and the data window it declares runs past the end of the buffer
C3_WindowPastEnd ==
    /\ C3_HeaderWhole
    /\ LET sizeOffset == offset + 7 + PaddedNameLength(buffer[offset + 7])
       IN  sizeOffset + 4 + ReadUInt32BE(buffer, sizeOffset) > Len(buffer)

\* C3: at a header whose declared data window runs past the end of the
\* buffer the walker returns, without an error, the resources emitted so far,
\* unchanged.
C3_OversizedResourceEndsWalk ==
    [][(pc = "walk" /\ C3_WindowPastEnd)
         => (pc' = "walked" /\ resources' = resources /\ err' = NoError)]_vars

\* the walk ended at such a header after emitting a resource
C3_Witness ==
    /\ pc = "walked"
    /\ Len(resources) >= 1
    /\ C3_WindowPastEnd

\* where the header of the i-th emitted resource starts: at 0, or where the
\* data of the one before it, padded to an even size, ends
HeaderStart(i) ==
    IF i = 1 THEN 0
    ELSE dataStarts[i - 1] + resources[i - 1].dataSize
            + (resources[i - 1].dataSize % 2)

\* the name-length byte of the i-th emitted resource
NameLengthByte(i) == ReadUInt8(buffer, HeaderStart(i) + 6)

\* the bytes between the end of the resource ID and the dataSize field
NameFieldBytes(i) == (dataStarts[i] - 4) - (HeaderStart(i) + 6)

\* C17: for every nameLength in 0..255 the walker consumes an even number
\* of bytes for the name field (length byte, name bytes and padding, from the
\* end of the resource ID to the dataSize field): 6 bytes for nameLength 4
\* and 2 bytes for nameLength 0.
C17_NameFieldEven ==
    \A i \in 1..Len(resources) :
        /\ NameFieldBytes(i) % 2 = 0
        /\ NameLengthByte(i) = 4 => NameFieldBytes(i) = 6
        /\ NameLengthByte(i) = 0 => NameFieldBytes(i) = 2

\* a resource whose name-length byte is 4 was emitted, 6 bytes consumed
C17_Witness ==
    /\ fixture.kind = "nameLength"
    /\ fixture.nameLength = 4
    /\ Len(resources) = 1
    /\ NameLengthByte(1) = 4
    /\ NameFieldBytes(1) = 6

\* n rounded up to the next even number
RoundUpToEven(n) == n + (n % 2)

\* C18: for every nameLength in 0..255 the name field the walker consumes
\* is nameLength + 1 rounded up to the next even number, so at most one
\* padding byte (nameLength 1 consumes 2 bytes, nameLength 3 consumes 4).
C18_NameFieldRoundedUpToEven ==
    \A i \in 1..Len(resources) :
        NameFieldBytes(i) = RoundUpToEven(NameLengthByte(i) + 1)

\* C19: resources are emitted in the physical order of the file: data start
\* offsets strictly increase from one emitted resource to the next, the data
\* windows do not overlap, each record holds the bytes of its own window,
\* and no resource is emitted twice or out of order.
C19_EmittedInFileOrder ==
    /\ \A i \in 1..Len(resources) :
          resources[i].data =
              Slice(buffer, dataStarts[i], dataStarts[i] + resources[i].dataSize)
    /\ \A i, j \in 1..Len(resources) :
          i < j =>
             /\ dataStarts[i] < dataStarts[j]
             /\ dataStarts[i] + resources[i].dataSize <= dataStarts[j]
    /\ (fixture.kind = "nested" /\ pc = "walked") =>
          [i \in 1..Len(resources) |-> resources[i].id] = <<1001, 1003>>

\* the walker emitted a resource whose data holds the bytes of a resource,
\* then the resource after it
C19_Witness ==
    /\ pc = "walked"
    /\ fixture.kind = "nested"
    /\ Len(resources) = 2
    /\ resources[1].dataSize >= 12
    /\ resources[2].id = 1003

\* an iteration either emits and moves the cursor on by 12 bytes or more, or
\* leaves the cursor where it was and ends the loop
C20_Iteration ==
    pc = "walk" =>
        IF Len(resources') > Len(resources)
        THEN offset' >= offset + 12 /\ offset' <= Len(buffer) + 1
        ELSE offset' = offset /\ pc' \in {"walked", "error"}

\* C20: the walker terminates on every finite buffer: each iteration that
\* emits a resource advances the cursor by at least the 12 bytes of the fixed
\* header (4 + 2 + 2 + 4), and every iteration that does not advance ends
\* the loop.
C20_WalkerTerminates ==
    /\ <>(pc # "walk")
    /\ [][C20_Iteration]_vars

\* the walker left its loop after emitting MaxRes resources
C20_Witness ==
    /\ pc = "walked"
    /\ fixture.kind = "none"
    /\ Len(resources) = MaxRes

(***************************************************************************)
(* Claims about readLayersFromTiff, checked under Spec.                    *)
(***************************************************************************)

\* parseLayerAndMaskInfo yields one or more layers on data sliced at skip
YieldsLayers(data, skip) ==
    LET r == ParseLayerAndMaskInfo(Slice(data, skip, Len(data)))
    IN  ~r.threw /\ Len(r.layers) > 0

\* the walker output holds a resource with this ID and dataSize > 100
Qualifies(id) ==
    Find(resources, id) # 0 /\ resources[Find(resources, id)].dataSize > 100

\* the data of the first resource with this ID
DataOf(id) == resources[Find(resources, id)].data

\* C5: on the fallback path, when the direct parse of resource 1036
\* (dataSize > 100) throws or yields no layers, the parser is retried on the
\* data sliced at 0, 4, 8, 12, 16, 28 and the layers of the first skip that
\* yields layers are the result.
C5_SkipRetryGivesLayers ==
    LET skips == <<0, 4, 8, 12, 16, 28>>
        works == {k \in 1..6 : /\ skips[k] < Len(DataOf(1036)) - 8
                               /\ YieldsLayers(DataOf(1036), skips[k])}
        first == CHOOSE k \in works : \A j \in works : k <= j
    IN  (/\ pc = "done"
         /\ Find(resources, 1058) = 0
         /\ Qualifies(1036)
         /\ ~YieldsLayers(DataOf(1036), 0)
         /\ works # {})
        => result.layers
             = ParseLayerAndMaskInfo(
                   Slice(DataOf(1036), skips[first], Len(DataOf(1036)))).layers

\* C6: readLayersFromTiff raises an error only when the first IFD has no tag
\* 34377 or when resource 1058 is present and its parse fails.
C6_OnlyTwoErrors ==
    pc = "error" =>
        \/ Len(ifds) = 0
        \/ 34377 \notin DOMAIN ifds[1].tags
        \/ /\ Find(resources, 1058) # 0
           /\ ParseLayerAndMaskInfo(DataOf(1058)).threw
           /\ err = ParseLayerAndMaskInfo(DataOf(1058)).message

\* C7: the block comes from tag 34377 of the first IFD only: without it the
\* call fails with the 'No Photoshop tag' error and returns nothing, whatever
\* later IFDs carry; with it, the walker runs on that tag's bytes.
C7_FirstIfdOnly ==
    pc # "read" =>
        IF Len(ifds) = 0 \/ 34377 \notin DOMAIN ifds[1].tags
        THEN /\ pc = "error"
             /\ err = "No Photoshop tag (34377) found in TIFF"
             /\ result = NoResult
             /\ resources = <<>>
        ELSE buffer = ifds[1].tags[34377]

\* the call failed although the second IFD carries the tag
C7_Witness ==
    /\ pc = "error"
    /\ Len(ifds) = 2
    /\ 34377 \notin DOMAIN ifds[1].tags
    /\ 34377 \in DOMAIN ifds[2].tags

\* C8: when the walker output holds resource 1058 the fallback never runs:
\* only that resource is parsed, and a result's layers are what its parse
\* returns, also when that is no layer at all or the parse fails.
C8_CanonicalExcludesFallback ==
    Find(resources, 1058) # 0 =>
        /\ pc # "fallback"
        /\ \A a \in 1..Len(attempts) :
              attempts[a].id = 1058 /\ attempts[a].index = Find(resources, 1058)
        /\ pc = "done" =>
              /\ attempts # <<>>
              /\ result.layers = ParseLayerAndMaskInfo(DataOf(1058)).layers

\* resource 1058 gave no layers, a qualifying alternative with layers was there
C8_Witness ==
    /\ pc = "done"
    /\ Find(resources, 1058) # 0
    /\ result.layers = <<>>
    /\ Qualifies(1036)
    /\ YieldsLayers(DataOf(1036), 0)

\* C9: on the fallback path the candidates are attempted in the order 1036,
\* 1050, 1083, 1082, only when present with dataSize > 100; the first one that
\* yields layers gives the result and nothing is attempted after it.
C9_FallbackOrder ==
    LET order == <<1036, 1050, 1083, 1082>>
        pos(id) == CHOOSE k \in 1..4 : order[k] = id
        yields(a) == YieldsLayers(resources[a.index].data, a.skip)
        n == Len(attempts)
    IN  (pc \in {"fallback", "done"} /\ Find(resources, 1058) = 0) =>
        /\ \A a \in 1..n :
              /\ attempts[a].id \in {1036, 1050, 1083, 1082}
              /\ attempts[a].index = Find(resources, attempts[a].id)
              /\ Qualifies(attempts[a].id)
        /\ \A a, b \in 1..n :
              a < b => pos(attempts[a].id) <= pos(attempts[b].id)
        /\ \A a \in 1..(n - 1) : ~yields(attempts[a])
        /\ pc = "done" =>
              /\ \A k \in 1..4 :
                    (/\ Qualifies(order[k])
                     /\ (n = 0 \/ ~yields(attempts[n]) \/ k <= pos(attempts[n].id)))
                    => \E a \in 1..n : attempts[a].id = order[k]
              /\ (n > 0 /\ yields(attempts[n])) =>
                    result.layers =
                        ParseLayerAndMaskInfo(
                            Slice(resources[attempts[n].index].data, attempts[n].skip,
                                  Len(resources[attempts[n].index].data))).layers

\* the second candidate attempted gave the layers and a later one was left out
C9_Witness ==
    /\ pc = "done"
    /\ Find(resources, 1058) = 0
    /\ Len(attempts) = 2
    /\ attempts[1].id = 1036
    /\ attempts[2].id = 1083
    /\ result.layers # <<>>
    /\ Qualifies(1082)

\* no qualifying candidate yields layers
C10_NothingParses ==
    \A id \in {1036, 1050, 1083, 1082} : Qualifies(id) => ~YieldsLayers(DataOf(id), 0)

\* the result of the exhausted fallback
C10_EmptyResult ==
    (pc = "done" /\ Find(resources, 1058) = 0 /\ C10_NothingParses) =>
        /\ result.layers = <<>>
        /\ result.totalLayers = 0
        /\ result.hasTransparency = FALSE
        /\ Len(result.resources) = Len(resources)
        /\ \A i \in 1..Len(resources) :
              result.resources[i] = [id |-> resources[i].id,
                                     name |-> resources[i].name,
                                     size |-> resources[i].dataSize]

\* C10: on the fallback path, when no candidate yields layers, the call
\* returns, without an error, a result with no layers, totalLayers 0,
\* hasTransparency false and a manifest of every resource the walker found.
C10_ExhaustedFallbackResult ==
    /\ []C10_EmptyResult
    /\ [][pc = "fallback" => pc' \in {"fallback", "done"} /\ err' = NoError]_vars

\* the fallback ran dry on a block with an empty resource and a candidate
C10_Witness ==
    /\ pc = "done"
    /\ Find(resources, 1058) = 0
    /\ attempts # <<>>
    /\ result.layers = <<>>
    /\ \E i \in 1..Len(resources) : resources[i].dataSize = 0
    /\ Len(result.resources) >= 2


\* the block of the one resource 1058 carrying the two named layers
NamedLayersBlock == EncodeResource(1058, <<>>, Len(NamedLayers), NamedLayers)

\* C14: a block holding one resource 1058 whose payload encodes two layers,
\* the first named "Background" by an lnam block and the second "Text Layer"
\* by a luni block, both with blend mode "norm", reads as exactly two records
\* in that order with those names and hasTransparency false.
C14_NamedLayersRoundTrip ==
    (pc \in {"done", "error"} /\ buffer = NamedLayersBlock) =>
        /\ pc = "done"
        /\ Len(result.layers) = 2
        /\ result.layers[1].name = StrBackground
        /\ result.layers[2].name = StrTextLayer
        /\ result.layers[1].bottom = 10
        /\ result.layers[2].bottom = 20
        /\ result.totalLayers = 2
        /\ result.hasTransparency = FALSE

\* the two named layers were read from a block of one resource
C14_Witness ==
    /\ pc = "done"
    /\ buffer = NamedLayersBlock
    /\ Len(resources) = 1
    /\ resources[1].data = NamedLayers
    /\ Len(result.layers) = 2


(***************************************************************************)
(* Claims about repeated calls, checked under SpecTwice.                   *)
(***************************************************************************)

\* C16: reading the same input twice gives identical outcomes: the second
\* call ends as the first did, with the same error or the same layer data,
\* and its walker finds the same resources; nothing the first call left
\* behind reaches the second.
C16_SecondCallSameOutcome ==
    (earlier # NoEarlier /\ pc \in {"done", "error"}) => Outcome = earlier

\* a second call returned layers after the first call had walked a block of
\* several resources
C16_Witness ==
    /\ earlier # NoEarlier
    /\ pc = "done"
    /\ Len(result.layers) > 0
    /\ Len(resources) > 1
    /\ Len(earlier.walked) > 1


(***************************************************************************)
(* Claims about the TiffLayerData returned, checked under Spec.            *)
(***************************************************************************)

\* the call returned on the fallback path with layers
FallbackSucceeded ==
    pc = "done" /\ Find(resources, 1058) = 0 /\ result.layers # <<>>

\* C21: in every TiffLayerData returned (canonical path, fallback success,
\* fallback exhausted) totalLayers is the number of entries of layers and
\* hasTransparency is true exactly when some layer's blendMode is not
\* "norm", hence false when there are no layers.
C21_CountAndTransparency ==
    pc = "done" =>
        /\ result.totalLayers = Len(result.layers)
        /\ result.hasTransparency
              <=> (\E i \in 1..Len(result.layers) : result.layers[i].blendMode # StrNorm)
        /\ result.layers = <<>> => ~result.hasTransparency

\* the fallback returned a layer whose blend mode is "mul "
C21_Witness ==
    /\ FallbackSucceeded
    /\ result.hasTransparency
    /\ result.layers[1].blendMode = StrMul

\* C22: in every TiffLayerData returned, whichever path produced the layers,
\* the resources manifest has one entry per resource the walker emitted, in
\* the walker's order, with that resource's id, name and size = dataSize.
C22_ManifestOfEveryResource ==
    pc = "done" =>
        /\ Len(result.resources) = Len(resources)
        /\ \A i \in 1..Len(resources) :
              /\ result.resources[i].id = resources[i].id
              /\ result.resources[i].name = resources[i].name
              /\ result.resources[i].size = resources[i].dataSize
              /\ DOMAIN result.resources[i] = {"id", "name", "size"}

\* the fallback returned layers from a block that starts with a named
\* resource
C22_Witness ==
    /\ FallbackSucceeded
    /\ Len(resources) >= 3
    /\ resources[1].name # <<>>
    /\ Len(result.resources) = Len(resources)

\* no resource with the same ID comes before the k-th one
FirstWithItsId(k) == \A j \in 1..(k - 1) : resources[j].id # resources[k].id

\* the layers the parser gives on the data of the k-th resource
LayersOf(k) == ParseLayerAndMaskInfo(resources[k].data).layers

\* C30: when the walker output holds several resources with the same ID,
\* only the first of them in walker order is consulted for each of the IDs
\* 1058, 1036, 1050, 1083, 1082: a later one never contributes layers, even
\* when the first is skipped for dataSize <= 100 or yields zero layers.
C30_FirstOfDuplicatesOnly ==
    /\ \A n \in 1..Len(attempts) : FirstWithItsId(attempts[n].index)
    /\ pc = "done" =>
          /\ \A k \in 1..Len(resources) :
                (~FirstWithItsId(k) /\ LayersOf(k) # <<>>)
                    => result.layers # LayersOf(k)
          /\ result.layers # <<>> =>
                \E k \in 1..Len(resources) :
                    /\ FirstWithItsId(k)
                    /\ result.layers = LayersOf(k)

\* the fallback ran dry although the second resource 1036 holds a layer:
\* the first one has 100 bytes or fewer
C30_Witness ==
    /\ pc = "done"
    /\ Len(resources) = 2
    /\ resources[1].id = 1036
    /\ resources[2].id = 1036
    /\ resources[1].dataSize <= 100
    /\ LayersOf(2) # <<>>
    /\ result.layers = <<>>


(***************************************************************************)
(* Claims about the diagnostics, checked under SpecQuiet.                  *)
(***************************************************************************)

\* C23: the diagnostics (analyzeTiffStructure, the resource and candidate
\* dumps) only write to the log: the call returns the same TiffLayerData or
\* raises the same error as a call with the diagnostics left out, and a
\* failure inside analyzeTiffStructure is caught and does not reach the
\* caller.
C23_DiagnosticsOnlyLog ==
    /\ (earlier # NoEarlier /\ diagnostics = "off" /\ pc \in {"done", "error"}) =>
          /\ pc = earlier.kind
          /\ err = earlier.err
          /\ result = earlier.result
    /\ err # "analysis failed"

\* the call whose analysis failed and whose candidate was dumped returned
\* layers from the fallback, and so did the call without diagnostics
C23_Witness ==
    /\ earlier # NoEarlier
    /\ diagnostics = "off"
    /\ FallbackSucceeded
    /\ \E n \in 1..Len(log) : log[n] = "Error analyzing TIFF structure"
    /\ \E n \in 1..Len(log) : log[n] = "Candidate"


(***************************************************************************)
(* Claims about the trailers of layer records, checked under SpecLayers.   *)
(***************************************************************************)

\* C24: for every layer record emitted, the declared end of its trailer
\* (extraDataStart + extraDataLength) does not exceed the buffer length: a
\* record whose declared trailer runs past the end of the buffer is not
\* emitted.
C24_TrailerEndInsideBuffer ==
    (pc = "done" /\ fixture.kind = "layers") =>
        \A j \in 1..Len(layers) : fixture.recordEnds[j] <= Len(buffer)

\* the name is the default one or decodes bytes that lie inside the trailer
NameFromTrailer(name, trailerStart, trailerEnd) ==
    \/ name = <<76, 97, 121, 101, 114, 32, 49>>
    \/ \E a, b \in trailerStart..trailerEnd :
          /\ a <= b
          /\ \/ name = ToAscii(buffer, a, b)
             \/ name = ToUtf16le(buffer, a, b)

\* C25: the bytes decoded as a layer's name (luni character data or lnam
\* Pascal string) lie inside that layer's own trailer: a name length that
\* reaches past the declared trailer end never makes the name include bytes
\* of the following layer record.
C25_NameInsideOwnTrailer ==
    (pc = "done" /\ fixture.kind = "trailers" /\ Len(layers) >= 1) =>
        NameFromTrailer(layers[1].name, fixture.trailerStart, fixture.trailerEnd)

\* the record that follows the variant trailer, the same in every buffer
SecondRecord ==
    [name |-> CraftedName(2), top |-> 0, left |-> 0, bottom |-> 20, right |-> 20,
     width |-> 20, height |-> 20, blendMode |-> StrNorm, opacity |-> 255,
     flags |-> 0, visible |-> TRUE, channelCount |-> 0, channels |-> <<>>]

\* C26: after each emitted record the cursor is extraDataStart +
\* extraDataLength whatever the trailer holds: buffers that differ only in
\* the bytes of one layer's trailer (same extraDataLength) yield identical
\* fields for the following record, whether or not a name was found and
\* wherever the name search stopped.
C26_CursorAtTrailerEnd ==
    (pc = "done" /\ fixture.kind = "trailers") =>
        /\ Len(layers) = 2
        /\ layers[2] = SecondRecord

\* the record after a trailer of odd length, whose lnam name runs past the
\* trailer end, was returned
C26_Witness ==
    /\ pc = "done"
    /\ fixture.kind = "trailers"
    /\ fixture.variant = "lnamLong"
    /\ fixture.trailerEnd - fixture.trailerStart = 25
    /\ Len(layers) = 2

\* the buffer with the sign of its layer count flipped
WithNegatedCount(buf) ==
    SubSeq(buf, 1, 8) \o Int16Bytes(-ReadInt16BE(buf, 8)) \o SubSeq(buf, 11, Len(buf))

\* C27: the layer count is read as a signed 16-bit integer and only its
\* absolute value is used: two buffers that differ only in the sign of
\* layerCount yield identical layer record sequences.
C27_SignOfCountIgnored ==
    (pc = "done" /\ Len(buffer) >= 10) =>
        LET other == ParseLayerAndMaskInfo(WithNegatedCount(buffer))
        IN  ~other.threw /\ other.layers = layers

\* two records were returned under a layer count of -2 with named trailers
C27_Witness ==
    /\ pc = "done"
    /\ fixture.kind = "layers"
    /\ ReadInt16BE(buffer, 8) = -2
    /\ ReadInt16BE(WithNegatedCount(buffer), 8) = 2
    /\ Len(layers) = 2
    /\ layers[1].name = CraftedName(1)

\* "Layer " followed by j
LayerNumbered(j) == <<76, 97, 121, 101, 114, 32, 48 + j>>

\* C28: when the trailer of the layer at 0-based index i holds no luni or
\* lnam block the scan reaches (empty trailer, first signature not "8BIM",
\* or only other keys), the record's name is "Layer " followed by i + 1 and
\* the record is emitted with its other fields intact.
C28_DefaultName ==
    /\ (pc = "done" /\ fixture.kind = "layers") =>
          \A j \in 1..Len(layers) :
              fixture.kinds[j] \in {"none", "nosig"} =>
                 /\ layers[j].name = LayerNumbered(j)
                 /\ layers[j].bottom = 10 * j
                 /\ layers[j].right = 20
                 /\ layers[j].blendMode = StrNorm
                 /\ layers[j].opacity = 255
                 /\ layers[j].channelCount = fixture.channelCount
    /\ (/\ pc = "done"
        /\ fixture.kind = "trailers"
        /\ fixture.variant \in {"nosig", "otherOnly", "bigLength"}) =>
          /\ Len(layers) >= 1
          /\ layers[1].name = LayerNumbered(1)
          /\ layers[1].bottom = 10
          /\ layers[1].blendMode = StrNorm

\* the second record, whose trailer is 16 bytes without a signature, was
\* returned as "Layer 2"
C28_Witness ==
    /\ pc = "done"
    /\ fixture.kind = "layers"
    /\ fixture.declared = 2
    /\ fixture.kinds[2] = "nosig"
    /\ Len(layers) = 2
    /\ layers[2].name = LayerNumbered(2)

\* C29: parseLayerAndMaskInfo raises an error exactly when the buffer has
\* fewer than 8 bytes, or layerInfoLength is non-zero and the buffer has
\* fewer than 10 bytes; on every other buffer, whatever channel counts,
\* trailer lengths, block lengths and name lengths it holds, it returns a
\* sequence.
C29_ErrorsOnlyOnShortBuffers ==
    pc # "parse" =>
        /\ pc = "error" <=>
              \/ Len(buffer) < 8
              \/ ReadUInt32BE(buffer, 4) # 0 /\ Len(buffer) < 10
        /\ pc = "error" =>
              /\ layers = <<>>
              /\ err \in {"Buffer too small for layer info",
                           "Buffer too small for layer count"}
        /\ pc = "done" => err = NoError /\ DOMAIN layers = 1..Len(layers)

\* the call returned on a section whose luni block claims 1000 characters
C29_Witness ==
    /\ pc = "done"
    /\ fixture.kind = "trailers"
    /\ fixture.variant = "luniBeyond"
    /\ Len(layers) = 2

====
